---- MODULE Spec2Model ----
(***************************************************************************)
(* Price Intelligence & Scraping Engine: the Celery task queue             *)
(* (celery_app.py, tasks.py), the store scrapers (scrapers.py), the        *)
(* product_prices table (models.py) and the price queries                  *)
(* (price_intelligence.py).                                                *)
(*                                                                         *)
(* Time is counted in minutes.  An optional (nullable) value is a set: {}  *)
(* is None and {v} is the value v.                                         *)
(***************************************************************************)
EXTENDS Integers, Sequences, FiniteSets, TLC

\* ------------------------------------------------------------------ bounds
MaxTicks == 2
MaxJobs == 3
MaxCrashes == 1
PoolSize == 2
MaxLimit == 2
BeatHorizon == 1500

\* ------------------------------------------------------- program constants
max_retries == 3
FreshnessWindow == 24 * 60
priority_limit == 1000
RefreshEvery == 15
RetentionWindow == 90 * 24 * 60
CacheTTL == 3600 \div 60
days_lookback == 7 * 24 * 60
Deltas == {60, FreshnessWindow, RetentionWindow}

None == {}
Some(v) == {v}
The(s) == CHOOSE v \in s : TRUE

\* SCRAPERS: the registered scrapers, in the dict's order.
SCRAPERS == <<"Boot Barn", "Sheplers">>
ScraperNames == {SCRAPERS[i] : i \in 1..Len(SCRAPERS)}
\* A store named in the scrapers' to-do list, with no scraper registered.
UnknownStore == "Murdochs"

\* ProductCatalog rows: id, priority_level.
ProductCatalog == <<[id |-> 1, priority_level |-> "high"],
                    [id |-> 2, priority_level |-> "normal"]>>
ProductIds == {ProductCatalog[i].id : i \in 1..Len(ProductCatalog)}

\* get_store_url: the (product, store) pairs the URL mapping table knows.
get_store_url(product_id, store_name) ==
    IF <<product_id, store_name>> \in
         {<<1, "Boot Barn">>, <<2, "Boot Barn">>, <<2, "Sheplers">>}
    THEN Some(<<product_id, store_name>>) ELSE None

Prices == {1, 2}
OrigPrices == {2}

\* ------------------------------------------------------------ beat schedule
MinutesPerHour == 60
HoursPerDay == 24

\* crontab(minute, hour): the minutes and the hours of the day it matches; a
\* field that is not given is "*".
EveryMinute == 0..(MinutesPerHour - 1)
EveryHour == 0..(HoursPerDay - 1)
StepOf(range, n) == {v \in range : v % n = 0}
crontab(minute, hour) == [minute |-> minute, hour |-> hour]

\* celery_app.conf.beat_schedule
beat_schedule ==
    [scrape_all_stores |-> crontab(EveryMinute, StepOf(EveryHour, 12)),
     scrape_priority_products |-> crontab(EveryMinute, StepOf(EveryHour, 4)),
     cleanup_old_prices |-> crontab({0}, {2}),
     update_best_prices_cache |-> crontab(StepOf(EveryMinute, RefreshEvery), EveryHour)]

VARIABLES now, ticks, prices, nextId, jobs, queue, crashes,
          cache, current_best_price, refresh, last_reply, entries

\* Redis, the catalog's denormalised column, the run of the cache task, the
\* last answer given to a caller and the beat's schedule entries.
service_vars == <<cache, current_best_price, refresh, last_reply, entries>>

vars == <<now, ticks, prices, nextId, jobs, queue, crashes, service_vars>>

Terminal == {"Succeeded", "Failed"}

Min(a, b) == IF a <= b THEN a ELSE b
MinOf(S) == CHOOSE x \in S : \A y \in S : x <= y

RECURSIVE Pow2(_)
Pow2(n) == IF n = 0 THEN 1 ELSE 2 * Pow2(n - 1)

\* ---------------------------------------------------------------- scrapers
\* What a product page shows: ok is FALSE for a timeout, a non-200 answer or
\* any other exception of the request; the elements are optional.
Pages == [ok : BOOLEAN, price : {None} \cup {Some(p) : p \in Prices},
          original : {None} \cup {Some(p) : p \in OrigPrices},
          stock : BOOLEAN]

\* BootBarnScraper.scrape_product: None or the result dict.
BootBarn_scrape_product(page) ==
    IF ~page.ok THEN None
    ELSE IF page.original # None /\ page.price = None
    THEN None   \* original_price > None raises, caught by except Exception
    ELSE Some([price |-> page.price,
               original_price |-> page.original,
               is_on_sale |-> page.original # None /\ The(page.original) > The(page.price),
               in_stock |-> page.stock,
               scraped_at |-> now])

\* SheplersScraper.scrape_product: None or the result dict.
Sheplers_scrape_product(page) ==
    IF ~page.ok \/ page.price = None THEN None
    ELSE Some([price |-> page.price,
               original_price |-> None,
               is_on_sale |-> FALSE,
               in_stock |-> page.stock,
               scraped_at |-> now])

\* The page came back and the selector of the price finds no element in it.
PriceElementMissing(page) == page.ok /\ page.price = None

scrape_product(store_name, page) ==
    IF store_name = "Boot Barn" THEN BootBarn_scrape_product(page)
    ELSE Sheplers_scrape_product(page)

\* ------------------------------------------------------------------- state
NewJob(product_id, store_name) ==
    [product_id |-> product_id, store_name |-> store_name,
     status |-> "Queued", pc |-> "idle", retries |-> 0,
     result |-> None, existing |-> None, ret |-> "none",
     delays |-> <<>>, fetches |-> 0, fetch_failures |-> 0, parse_errors |-> 0,
     failed_at |-> None]

Init ==
    /\ now = 0
    /\ ticks = 0
    /\ prices = {}
    /\ nextId = 1
    /\ jobs = <<>>
    /\ queue = {}
    /\ crashes = 0
    /\ cache = [p \in ProductIds |-> None]
    /\ current_best_price = [p \in ProductIds |-> None]
    /\ refresh = [pc |-> 0, session |-> [p \in ProductIds |-> None]]
    /\ last_reply = None
    /\ entries = [name \in DOMAIN beat_schedule |->
                    [last_run_at |-> now, total_run_count |-> 0]]

Tick(d) ==
    /\ ticks < MaxTicks
    /\ now' = now + d
    /\ ticks' = ticks + 1
    /\ UNCHANGED <<prices, nextId, jobs, queue, crashes, service_vars>>

\* scrape_product_price.delay: publish one task message.
RECURSIVE DelayAll(_, _)
DelayAll(js, pairs) ==
    IF pairs = <<>> THEN js
    ELSE DelayAll(Append(js, NewJob(Head(pairs)[1], Head(pairs)[2])), Tail(pairs))

\* The pairs of a sweep whose inner loop visits the first scraper only.
SweepPairs_first_scraper(products) ==
    LET all == [i \in 1..Len(products) |-> <<products[i].id, SCRAPERS[1]>>]
    IN SelectSeq(all, LAMBDA pr : get_store_url(pr[1], pr[2]) # None)

\* The (product, store) pairs of the products at the given catalog indexes, in
\* the order of the two nested loops, for which get_store_url gives a URL.
SweepPairs(products) ==
    LET n == Len(SCRAPERS)
        all == [i \in 1..(Len(products) * n) |->
                  <<products[((i - 1) \div n) + 1].id, SCRAPERS[((i - 1) % n) + 1]>>]
    IN SelectSeq(all, LAMBDA pr : get_store_url(pr[1], pr[2]) # None)

\* The messages in the broker after the new ones are published.
Published(pairs) == queue \cup ((Len(jobs) + 1)..(Len(jobs) + Len(pairs)))

scrape_all_stores ==
    LET pairs == SweepPairs(ProductCatalog)
    IN /\ Len(jobs) + Len(pairs) <= MaxJobs
       /\ jobs' = DelayAll(jobs, pairs)
       /\ queue' = Published(pairs)
       /\ UNCHANGED <<now, ticks, prices, nextId, crashes, service_vars>>

\* The sets of k elements of S.
RECURSIVE KSubsets(_, _)
KSubsets(S, k) ==
    IF k = 0 THEN {{}}
    ELSE UNION {{D \cup {x} : D \in KSubsets({y \in S : y > x}, k - 1)} : x \in S}

\* The rows without those at the indexes in cut.
RECURSIVE Without(_, _)
Without(rows, cut) ==
    IF cut = {} THEN rows
    ELSE LET d == CHOOSE x \in cut : \A y \in cut : y <= x
         IN Without([i \in 1..(Len(rows) - 1) |->
                       IF i < d THEN rows[i] ELSE rows[i + 1]], cut \ {d})

\* Query.limit(limit).all() of a query without ORDER BY: the database returns
\* every row when there are at most limit, and otherwise any limit of them.
query_limit(rows, limit) ==
    IF Len(rows) <= limit THEN {rows}
    ELSE {Without(rows, cut) : cut \in KSubsets(1..Len(rows), Len(rows) - limit)}

\* .filter(ProductCatalog.priority_level == "high")
HighPriority(catalog) == SelectSeq(catalog, LAMBDA p : p.priority_level = "high")

\* scrape_priority_products over the rows that the table holds.
scrape_priority_products_on(catalog) ==
    \E priority_products \in query_limit(HighPriority(catalog), priority_limit) :
      LET pairs == SweepPairs(priority_products)
      IN /\ Len(jobs) + Len(pairs) <= MaxJobs
         /\ jobs' = DelayAll(jobs, pairs)
         /\ queue' = Published(pairs)
         /\ UNCHANGED <<now, ticks, prices, nextId, crashes, service_vars>>

scrape_priority_products == scrape_priority_products_on(ProductCatalog)

\* A task message for a store that has no scraper in SCRAPERS.
delay_unknown_store(product_id) ==
    LET pairs == <<<<product_id, UnknownStore>>>>
    IN /\ Len(jobs) + Len(pairs) <= MaxJobs
       /\ jobs' = DelayAll(jobs, pairs)
       /\ queue' = Published(pairs)
       /\ UNCHANGED <<now, ticks, prices, nextId, crashes, service_vars>>

Running == {j \in 1..Len(jobs) : jobs[j].status = "Running"}

\* A pool worker takes a queued message and starts the task.
scrape_product_price_start(j) ==
    /\ j <= Len(jobs)
    /\ jobs[j].status = "Queued"
    /\ Cardinality(Running) < PoolSize
    /\ jobs' = [jobs EXCEPT ![j].status = "Running", ![j].pc = "fetch",
                            ![j].result = None, ![j].existing = None]
    /\ UNCHANGED <<now, ticks, prices, nextId, queue, crashes, service_vars>>

\* Return without the acknowledgement of the message.
Return_unacked(j, ret, js) ==
    /\ jobs' = [js EXCEPT ![j].status = "Succeeded", ![j].pc = "idle",
                          ![j].ret = ret, ![j].result = None, ![j].existing = None]
    /\ UNCHANGED queue

\* The task returns: state SUCCESS, and the message is acknowledged (acks_late).
Return(j, ret, js) ==
    /\ jobs' = [js EXCEPT ![j].status = "Succeeded", ![j].pc = "idle",
                          ![j].ret = ret, ![j].result = None, ![j].existing = None]
    /\ queue' = queue \ {j}

\* except Exception: raise self.retry(exc=e, countdown=2 ** self.request.retries)
Retry(j) ==
    IF jobs[j].retries < max_retries
    THEN /\ jobs' = [jobs EXCEPT ![j].status = "Retrying", ![j].pc = "idle",
                                 ![j].retries = @ + 1,
                                 ![j].delays = Append(@, Pow2(jobs[j].retries)),
                                 ![j].result = None, ![j].existing = None]
         /\ UNCHANGED queue
    ELSE /\ jobs' = [jobs EXCEPT ![j].status = "Failed", ![j].pc = "idle",
                                 ![j].ret = "raised",
                                 ![j].result = None, ![j].existing = None]
         /\ queue' = queue \ {j}

Matching(product_id, store_name) ==
    {r \in prices : r.product_id = product_id /\ r.store_name = store_name}

\* A failed fetch that discards the record of the pair.
ScrapingFailed_discards(j, js) ==
    /\ Return(j, "scraping_failed", [js EXCEPT ![j].fetch_failures = @ + 1,
                                               ![j].failed_at = Some(now)])
    /\ prices' = prices \ Matching(jobs[j].product_id, jobs[j].store_name)
    /\ UNCHANGED nextId

\* A failed fetch that marks the record of the pair as out of stock.
ScrapingFailed_out_of_stock(j, js) ==
    /\ Return(j, "scraping_failed", [js EXCEPT ![j].fetch_failures = @ + 1,
                                               ![j].failed_at = Some(now)])
    /\ prices' = {IF r \in Matching(jobs[j].product_id, jobs[j].store_name)
                  THEN [r EXCEPT !.in_stock = FALSE] ELSE r : r \in prices}
    /\ UNCHANGED nextId

\* if not result: return {"error": "Scraping failed"}
ScrapingFailed(j, js) ==
    /\ Return(j, "scraping_failed", [js EXCEPT ![j].fetch_failures = @ + 1,
                                               ![j].failed_at = Some(now)])
    /\ UNCHANGED <<prices, nextId>>

\* if not scraper: return {"error": "No scraper for store"}
NoScraper(j) ==
    /\ Return(j, "no_scraper", jobs)
    /\ UNCHANGED <<prices, nextId>>

\* SCRAPERS.get(store_name), scraper.scrape_product(...) and, with a result,
\* db.query(ProductPrice).filter(...).first(): any matching row as the session
\* loads it, or None.
scrape_product_price_fetch(j, page) ==
    /\ j <= Len(jobs)
    /\ jobs[j].status = "Running" /\ jobs[j].pc = "fetch"
    /\ IF jobs[j].store_name \notin ScraperNames
       THEN NoScraper(j)
       ELSE LET result == scrape_product(jobs[j].store_name, page)
                js == [jobs EXCEPT ![j].fetches = @ + 1,
                                   ![j].parse_errors =
                                       IF PriceElementMissing(page) THEN @ + 1 ELSE @]
                m == Matching(jobs[j].product_id, jobs[j].store_name)
            IN IF result = None
               THEN ScrapingFailed(j, js)
               ELSE /\ \E found \in (IF m = {} THEN {None}
                                                 ELSE {Some(r) : r \in m}) :
                          jobs' = [js EXCEPT ![j].pc = "commit",
                                             ![j].result = result,
                                             ![j].existing = found]
                    /\ UNCHANGED <<queue, prices, nextId>>
    /\ UNCHANGED <<now, ticks, crashes, service_vars>>

\* The write that stamps the record with the time of the fetch.
Written_fetch_time(j) ==
    LET job == jobs[j]
        result == The(job.result)
    IN IF job.existing # None
       THEN {IF r.id = The(job.existing).id
             THEN [r EXCEPT !.price = The(result.price),
                            !.original_price = result.original_price,
                            !.is_on_sale = result.is_on_sale,
                            !.in_stock = result.in_stock,
                            !.scraped_at = result.scraped_at]
             ELSE r : r \in prices}
       ELSE prices \cup {[id |-> nextId,
                          product_id |-> job.product_id,
                          store_name |-> job.store_name,
                          price |-> The(result.price),
                          original_price |-> result.original_price,
                          is_on_sale |-> result.is_on_sale,
                          in_stock |-> result.in_stock,
                          scraped_at |-> result.scraped_at]}

\* The rows after the update or the insert of the task, when the commit works.
\* The session's UPDATE sets the columns whose assigned value differs from the
\* value it loaded, and leaves the other columns of the row as they are now.
Written(j) ==
    LET job == jobs[j]
        result == The(job.result)
        loaded == The(job.existing)
    IN IF job.existing # None
       THEN {IF r.id = loaded.id
             THEN [r EXCEPT !.price = IF The(result.price) # loaded.price
                                      THEN The(result.price) ELSE @,
                            !.original_price =
                                IF result.original_price # loaded.original_price
                                THEN result.original_price ELSE @,
                            !.is_on_sale = IF result.is_on_sale # loaded.is_on_sale
                                           THEN result.is_on_sale ELSE @,
                            !.in_stock = IF result.in_stock # loaded.in_stock
                                         THEN result.in_stock ELSE @,
                            !.scraped_at = now]
             ELSE r : r \in prices}
       ELSE prices \cup {[id |-> nextId,
                          product_id |-> job.product_id,
                          store_name |-> job.store_name,
                          price |-> The(result.price),
                          original_price |-> result.original_price,
                          is_on_sale |-> result.is_on_sale,
                          in_stock |-> result.in_stock,
                          scraped_at |-> now]}

\* db.commit() raises: price is None (nullable=False), or the row to update is gone.
CommitRaises(j) ==
    \/ The(jobs[j].result).price = None
    \/ /\ jobs[j].existing # None
       /\ \A r \in prices : r.id # The(jobs[j].existing).id

scrape_product_price_commit(j) ==
    /\ j <= Len(jobs)
    /\ jobs[j].status = "Running" /\ jobs[j].pc = "commit"
    /\ IF CommitRaises(j)
       THEN Retry(j) /\ UNCHANGED <<prices, nextId>>
       ELSE /\ prices' = Written(j)
            /\ nextId' = IF jobs[j].existing = None THEN nextId + 1 ELSE nextId
            /\ Return(j, "success", jobs)
    /\ UNCHANGED <<now, ticks, crashes, service_vars>>

\* A failed write that the task swallows and reports as done.
db_commit_fails_reported_done(j) ==
    /\ j <= Len(jobs)
    /\ jobs[j].status = "Running" /\ jobs[j].pc = "commit"
    /\ Return(j, "success", jobs)
    /\ UNCHANGED <<now, ticks, prices, nextId, crashes, service_vars>>

\* db.commit() raises because the database fails (connection lost, deadlock,
\* disk full): the transaction is rolled back, nothing of it is stored, and
\* the except clause calls self.retry.
db_commit_fails(j) ==
    /\ j <= Len(jobs)
    /\ jobs[j].status = "Running" /\ jobs[j].pc = "commit"
    /\ Retry(j)
    /\ UNCHANGED <<now, ticks, prices, nextId, crashes, service_vars>>

\* The countdown of a retry has passed: the message is ready for a worker.
retry_due(j) ==
    /\ j <= Len(jobs)
    /\ jobs[j].status = "Retrying"
    /\ jobs' = [jobs EXCEPT ![j].status = "Queued"]
    /\ UNCHANGED <<now, ticks, prices, nextId, queue, crashes, service_vars>>

\* The message was acknowledged as the task started: the job of a lost worker
\* is gone.
worker_lost_acked(j) ==
    /\ j <= Len(jobs)
    /\ jobs[j].status = "Running"
    /\ crashes < MaxCrashes
    /\ crashes' = crashes + 1
    /\ jobs' = [jobs EXCEPT ![j].pc = "lost", ![j].result = None, ![j].existing = None]
    /\ queue' = queue \ {j}
    /\ UNCHANGED <<now, ticks, prices, nextId, service_vars>>

\* task_acks_late with task_reject_on_worker_lost: the message of a task whose
\* worker died goes back to the queue.
worker_lost(j) ==
    /\ j <= Len(jobs)
    /\ jobs[j].status = "Running"
    /\ crashes < MaxCrashes
    /\ crashes' = crashes + 1
    /\ jobs' = [jobs EXCEPT ![j].status = "Queued", ![j].pc = "idle",
                            ![j].result = None, ![j].existing = None]
    /\ UNCHANGED <<now, ticks, prices, nextId, queue, service_vars>>

\* The cleanup with the cutoff date itself deleted.
cleanup_old_prices_inclusive ==
    LET cutoff_date == now - RetentionWindow
    IN /\ prices' = {r \in prices : ~(r.scraped_at <= cutoff_date)}
       /\ UNCHANGED <<now, ticks, nextId, jobs, queue, crashes, service_vars>>

cleanup_old_prices ==
    LET cutoff_date == now - RetentionWindow
    IN /\ prices' = {r \in prices : ~(r.scraped_at < cutoff_date)}
       /\ UNCHANGED <<now, ticks, nextId, jobs, queue, crashes, service_vars>>

\* str(best_price): the decimal text of the number.
str(v) == [text |-> v]

\* redis: the value under best_price:<product id>, None once its TTL has passed.
redis_get(product_id) ==
    IF cache[product_id] # None /\ now < The(cache[product_id]).expires_at
    THEN Some(The(cache[product_id]).value) ELSE None

\* A set that keeps the value of a key that is live (SET ... NX EX).
redis_setnx(product_id, ttl, value) ==
    IF redis_get(product_id) # None THEN cache
    ELSE [cache EXCEPT ![product_id] = Some([value |-> value, expires_at |-> now + ttl])]

\* redis_client.setex(key, ttl, value)
redis_setex(product_id, ttl, value) ==
    [cache EXCEPT ![product_id] = Some([value |-> value, expires_at |-> now + ttl])]

\* update_best_prices_cache is taken up by a worker: products = query.all().
update_best_prices_cache_start ==
    /\ refresh.pc = 0
    /\ refresh' = [pc |-> 1, session |-> [p \in ProductIds |-> None]]
    /\ UNCHANGED <<now, ticks, prices, nextId, jobs, queue, crashes,
                   cache, current_best_price, last_reply, entries>>

\* The turn of the loop with a query that leaves out the in_stock filter.
update_best_prices_cache_product_any_stock ==
    /\ refresh.pc \in 1..Len(ProductCatalog)
    /\ LET product == ProductCatalog[refresh.pc]
           rows == {r \in prices : /\ r.product_id = product.id
                                    /\ r.scraped_at > now - FreshnessWindow}
       IN IF rows # {}
          THEN LET best_price == MinOf({r.price : r \in rows})
               IN /\ refresh' = [pc |-> refresh.pc + 1,
                                 session |-> [refresh.session EXCEPT
                                                ![product.id] = Some(best_price)]]
                  /\ cache' = redis_setex(product.id, CacheTTL, str(best_price))
          ELSE /\ refresh' = [refresh EXCEPT !.pc = @ + 1]
               /\ UNCHANGED cache
    /\ UNCHANGED <<now, ticks, prices, nextId, jobs, queue, crashes,
                   current_best_price, last_reply, entries>>

\* One turn of the loop over the products: the query of the product's prices,
\* and with a price the assignment to the product (in the session, not yet
\* committed) and the setex.
update_best_prices_cache_product ==
    /\ refresh.pc \in 1..Len(ProductCatalog)
    /\ LET product == ProductCatalog[refresh.pc]
           rows == {r \in prices : /\ r.product_id = product.id
                                    /\ r.in_stock
                                    /\ r.scraped_at > now - FreshnessWindow}
       IN IF rows # {}
          THEN LET best_price == MinOf({r.price : r \in rows})
               IN /\ refresh' = [pc |-> refresh.pc + 1,
                                 session |-> [refresh.session EXCEPT
                                                ![product.id] = Some(best_price)]]
                  /\ cache' = redis_setex(product.id, CacheTTL, str(best_price))
          ELSE /\ refresh' = [refresh EXCEPT !.pc = @ + 1]
               /\ UNCHANGED cache
    /\ UNCHANGED <<now, ticks, prices, nextId, jobs, queue, crashes,
                   current_best_price, last_reply, entries>>

\* db.commit() at the end of the task.
update_best_prices_cache_commit ==
    /\ refresh.pc = Len(ProductCatalog) + 1
    /\ current_best_price' =
          [p \in ProductIds |-> IF refresh.session[p] # None
                                THEN refresh.session[p] ELSE current_best_price[p]]
    /\ refresh' = [pc |-> 0, session |-> [p \in ProductIds |-> None]]
    /\ UNCHANGED <<now, ticks, prices, nextId, jobs, queue, crashes,
                   cache, last_reply, entries>>

\* The pages the lifecycle specification draws from: a failed request, a page
\* without a price element, a page with a price.
LeanPages == {pg \in Pages : pg.original = None /\ pg.stock
                              /\ (pg.ok => pg.price \in {None, Some(1)})
                              /\ (~pg.ok => pg.price = None)}
\* The pages the repository specification draws from: every price, stock and
\* original-price combination of a page that has its price element.
RichPages == {pg \in Pages : pg.ok /\ pg.price # None /\ pg.original = None}

\* The job queue and the worker pool, with failures of the fetch, of the
\* write and of the workers.
Next ==
    \/ scrape_all_stores
    \/ scrape_priority_products
    \/ delay_unknown_store(ProductCatalog[1].id)
    \/ \E j \in 1..MaxJobs : scrape_product_price_start(j)
    \/ \E j \in 1..MaxJobs, page \in LeanPages : scrape_product_price_fetch(j, page)
    \/ \E j \in 1..MaxJobs : scrape_product_price_commit(j)
    \/ \E j \in 1..MaxJobs : retry_due(j)
    \/ \E j \in 1..MaxJobs : worker_lost(j)

Spec == Init /\ [][Next]_vars

\* The repository over time: jobs that fetch, the clock, the daily cleanup.
NextRepo ==
    \/ \E d \in Deltas : Tick(d)
    \/ scrape_all_stores
    \/ scrape_priority_products
    \/ \E j \in 1..MaxJobs : scrape_product_price_start(j)
    \/ \E j \in 1..MaxJobs, page \in RichPages : scrape_product_price_fetch(j, page)
    \/ \E j \in 1..MaxJobs : scrape_product_price_commit(j)
    \/ \E j \in 1..MaxJobs : retry_due(j)
    \/ cleanup_old_prices

SpecRepo == Init /\ [][NextRepo]_vars

\* Workers keep consuming the queue: a task that can take its next step takes it.
JobStep(j) ==
    \/ scrape_product_price_start(j)
    \/ \E page \in LeanPages : scrape_product_price_fetch(j, page)
    \/ scrape_product_price_commit(j)
    \/ retry_due(j)

\* One full sweep, its jobs and the loss of workers.
NextFair ==
    \/ scrape_all_stores
    \/ \E j \in 1..MaxJobs : JobStep(j)
    \/ \E j \in 1..MaxJobs : worker_lost(j)

FairSpec == Init /\ [][NextFair]_vars /\ \A j \in 1..MaxJobs : WF_vars(JobStep(j))

\* ------------------------------------------------------ price_intelligence
\* query.order_by(ProductPrice.price.asc()): every order the database may give,
\* rows of equal price in any order.
OrderByPrice(rows) ==
    {o \in [1..Cardinality(rows) -> rows] :
        /\ \A i, k \in 1..Cardinality(rows) : i # k => o[i] # o[k]
        /\ \A i, k \in 1..Cardinality(rows) : i < k => o[i].price <= o[k].price}

\* .limit(limit).all()
Limit(o, limit) == SubSeq(o, 1, Min(limit, Len(o)))

\* The answer built from the rows the query returned.
\* product_name, msrp and average_price depend on nothing else here and are
\* left out of the record.
PricesReply(product_id, ps) ==
    LET price_list == [i \in 1..Len(ps) |->
                         [store |-> ps[i].store_name, price |-> ps[i].price,
                          original_price |-> ps[i].original_price,
                          is_on_sale |-> ps[i].is_on_sale,
                          in_stock |-> ps[i].in_stock,
                          last_updated |-> ps[i].scraped_at]]
        prices_values == {ps[i].price : i \in {k \in 1..Len(ps) : ps[k].in_stock}}
    IN [product_id |-> product_id,
        lowest_price |-> IF prices_values # {} THEN Some(MinOf(prices_values)) ELSE None,
        prices |-> price_list,
        total_stores |-> Len(price_list),
        stores_in_stock |-> Cardinality({i \in 1..Len(price_list) : price_list[i].in_stock})]

\* PriceIntelligenceService.get_product_prices: the answers it may give.
get_product_prices(product_id, limit, include_out_of_stock) ==
    IF product_id \notin ProductIds THEN {[error |-> "Product not found"]}
    ELSE LET rows == {r \in prices :
                        /\ r.product_id = product_id
                        /\ r.scraped_at > now - FreshnessWindow
                        /\ (~include_out_of_stock => r.in_stock)}
         IN {PricesReply(product_id, Limit(o, limit)) : o \in OrderByPrice(rows)}

\* timedelta(days=days), in minutes.
timedelta(days) == days * HoursPerDay * MinutesPerHour

\* datetime.isoformat(): the text of the time.
isoformat(t) == [iso |-> t]

\* query.order_by(ProductPrice.scraped_at.asc()): every order the database may
\* give, rows of equal scraped_at in any order.
OrderByScrapedAt(rows) ==
    {o \in [1..Cardinality(rows) -> rows] :
        /\ \A i, k \in 1..Cardinality(rows) : i # k => o[i] # o[k]
        /\ \A i, k \in 1..Cardinality(rows) : i < k => o[i].scraped_at <= o[k].scraped_at}

\* The history list built from the rows the query returned.
History(ps) ==
    [i \in 1..Len(ps) |-> [date |-> isoformat(ps[i].scraped_at),
                           store |-> ps[i].store_name,
                           price |-> ps[i].price,
                           in_stock |-> ps[i].in_stock]]

\* The history of a query that leaves out the filter on the product.
get_price_history_any_product(product_id, days) ==
    LET cutoff_date == now - timedelta(days)
        rows == {r \in prices : r.scraped_at > cutoff_date}
    IN {History(o) : o \in OrderByScrapedAt(rows)}

\* PriceIntelligenceService.get_price_history: the answers it may give.
get_price_history(product_id, days) ==
    LET cutoff_date == now - timedelta(days)
        rows == {r \in prices : /\ r.product_id = product_id
                                /\ r.scraped_at > cutoff_date}
    IN {History(o) : o \in OrderByScrapedAt(rows)}

Abs(x) == IF x < 0 THEN -x ELSE x

\* round(n / d, 0) for d > 0: to the nearest integer, a tie to the even one.
Round(n, d) ==
    LET q == n \div d
        r == n % d
    IN IF 2 * r < d THEN q
       ELSE IF 2 * r > d THEN q + 1
       ELSE IF q % 2 = 0 THEN q ELSE q + 1

\* The discount in a quotient of the sale price.
discount_percent_of_price(sale) ==
    IF sale.original_price # None /\ The(sale.original_price) # 0
    THEN Round((The(sale.original_price) - sale.price) * 1000, sale.price)
    ELSE 0

\* round(discount_percent, 1), in tenths of a percent, of prices in cents:
\* (original_price - price) / original_price * 100 if original_price else 0.
discount_percent(sale) ==
    IF sale.original_price # None /\ The(sale.original_price) # 0
    THEN Round((The(sale.original_price) - sale.price) * 1000,
               The(sale.original_price))
    ELSE 0

\* PriceIntelligenceService.detect_sales: the entries of sale_list (the query
\* has no order_by).
detect_sales ==
    LET cutoff_date == now - days_lookback
        sales == {r \in prices : /\ r.is_on_sale
                                 /\ r.in_stock
                                 /\ r.scraped_at > cutoff_date}
    IN {[product_id |-> sale.product_id,
         store |-> sale.store_name,
         sale_price |-> sale.price,
         original_price |-> sale.original_price,
         discount_percent |-> discount_percent(sale)] :
           sale \in {r \in sales : r.product_id \in ProductIds}}

\* Prices in cents as the stores' pages show them.
CentPrices == {9999, 18999}
CentOrigPrices == {10000, 24999}
CentPages == [ok : {TRUE}, price : {Some(p) : p \in CentPrices},
              original : {None} \cup {Some(p) : p \in CentOrigPrices},
              stock : BOOLEAN]

\* The priority sweep's jobs over pages with original prices, and the clock.
NextSales ==
    \/ Tick(days_lookback)
    \/ scrape_priority_products
    \/ \E j \in 1..MaxJobs : scrape_product_price_start(j)
    \/ \E j \in 1..MaxJobs, page \in CentPages : scrape_product_price_fetch(j, page)
    \/ \E j \in 1..MaxJobs : scrape_product_price_commit(j)

SpecSales == Init /\ [][NextSales]_vars

\* Pages whose price element reads as a number below zero ("-$5.00") or above.
SignedPages == [ok : {TRUE}, price : {Some(-500), Some(9999)},
                original : {None}, stock : BOOLEAN]

\* The priority sweep's jobs over pages with any number as the price.
NextSigned ==
    \/ scrape_priority_products
    \/ \E j \in 1..MaxJobs : scrape_product_price_start(j)
    \/ \E j \in 1..MaxJobs, page \in SignedPages : scrape_product_price_fetch(j, page)
    \/ \E j \in 1..MaxJobs : scrape_product_price_commit(j)

SpecSigned == Init /\ [][NextSigned]_vars

\* Sweeps whose fetches fail or succeed, while time passes.
NextStale ==
    \/ \E d \in {MinutesPerHour, FreshnessWindow} : Tick(d)
    \/ scrape_all_stores
    \/ scrape_priority_products
    \/ \E j \in 1..MaxJobs : scrape_product_price_start(j)
    \/ \E j \in 1..MaxJobs, page \in LeanPages : scrape_product_price_fetch(j, page)
    \/ \E j \in 1..MaxJobs : scrape_product_price_commit(j)
    \/ \E j \in 1..MaxJobs : retry_due(j)

SpecStale == Init /\ [][NextStale]_vars

\* A table of more high-priority products than the priority sweep's query
\* returns; the stores list the first two of them.
LargeCatalog == [i \in 1..(priority_limit + 1) |-> [id |-> i, priority_level |-> "high"]]

Catalogs == {ProductCatalog, LargeCatalog}

\* The priority sweep of an empty queue over a small and over a large table,
\* and the jobs it enqueues.
NextPriority ==
    \/ \E catalog \in Catalogs : (jobs = <<>> /\ scrape_priority_products_on(catalog))
    \/ \E j \in 1..MaxJobs : scrape_product_price_start(j)
    \/ \E j \in 1..MaxJobs, page \in LeanPages : scrape_product_price_fetch(j, page)
    \/ \E j \in 1..MaxJobs : scrape_product_price_commit(j)
    \/ \E j \in 1..MaxJobs : retry_due(j)

SpecPriority == Init /\ [][NextPriority]_vars

\* The minute and the hour of the day at time t (time 0 is a midnight).
MinuteOf(t) == t % MinutesPerHour
HourOf(t) == (t \div MinutesPerHour) % HoursPerDay

\* crontab.is_due: the first minute after last_run_at that the crontab matches
\* has come.
is_due(schedule, last) ==
    \E t \in (last + 1)..now : /\ MinuteOf(t) \in schedule.minute
                               /\ HourOf(t) \in schedule.hour

\* The beat sends the task of an entry that is due.
beat_apply_entry(name) ==
    /\ is_due(beat_schedule[name], entries[name].last_run_at)
    /\ entries' = [entries EXCEPT ![name] =
                      [last_run_at |-> now, total_run_count |-> @.total_run_count + 1]]
    /\ UNCHANGED <<now, ticks, prices, nextId, jobs, queue, crashes,
                   cache, current_best_price, refresh, last_reply>>

\* A minute passes; the beat has sent what was due.
beat_clock ==
    /\ now < BeatHorizon
    /\ \A name \in DOMAIN beat_schedule :
          ~is_due(beat_schedule[name], entries[name].last_run_at)
    /\ now' = now + 1
    /\ UNCHANGED <<ticks, prices, nextId, jobs, queue, crashes, service_vars>>

NextBeat ==
    \/ beat_clock
    \/ \E name \in DOMAIN beat_schedule : beat_apply_entry(name)

SpecBeat == Init /\ [][NextBeat]_vars

\* A caller asks for the prices of a product.
get_product_prices_call(product_id, limit, include_out_of_stock) ==
    /\ \E answer \in get_product_prices(product_id, limit, include_out_of_stock) :
          last_reply' = Some(answer)
    /\ UNCHANGED <<now, ticks, prices, nextId, jobs, queue, crashes,
                   cache, current_best_price, refresh, entries>>

\* A caller asks for the price history of a product.
get_price_history_call(product_id, days) ==
    /\ \E history \in get_price_history(product_id, days) :
          last_reply' = Some([product_id |-> product_id, days |-> days,
                              history |-> history])
    /\ UNCHANGED <<now, ticks, prices, nextId, jobs, queue, crashes,
                   cache, current_best_price, refresh, entries>>

\* The jobs the specifications of the readers let the sweeps enqueue.
ReadersJobs == MaxJobs - 1

\* The cache task, the readers and the clock over the jobs of the priority sweep.
NextCache ==
    \/ \E d \in {CacheTTL, FreshnessWindow} : Tick(d)
    \/ (Len(jobs) < ReadersJobs /\ scrape_priority_products)
    \/ \E j \in 1..MaxJobs : scrape_product_price_start(j)
    \/ \E j \in 1..MaxJobs, page \in RichPages : scrape_product_price_fetch(j, page)
    \/ \E j \in 1..MaxJobs : scrape_product_price_commit(j)
    \/ update_best_prices_cache_start
    \/ update_best_prices_cache_product
    \/ update_best_prices_cache_commit
    \/ \E product_id \in ProductIds, limit \in 1..MaxLimit :
          get_product_prices_call(product_id, limit, FALSE)

SpecCache == Init /\ [][NextCache]_vars

\* The cache task running alone: while it runs the clock stands and no job
\* writes; between its runs the full sweep's jobs write and time passes.
NextQuiet ==
    \/ \E d \in {RefreshEvery, CacheTTL, FreshnessWindow} : (refresh.pc = 0 /\ Tick(d))
    \/ (refresh.pc = 0 /\ scrape_all_stores)
    \/ \E j \in 1..MaxJobs : (refresh.pc = 0 /\ scrape_product_price_start(j))
    \/ \E j \in 1..MaxJobs, page \in RichPages :
          (refresh.pc = 0 /\ scrape_product_price_fetch(j, page))
    \/ \E j \in 1..MaxJobs : (refresh.pc = 0 /\ scrape_product_price_commit(j))
    \/ update_best_prices_cache_start
    \/ update_best_prices_cache_product
    \/ update_best_prices_cache_commit

SpecQuiet == Init /\ [][NextQuiet]_vars

\* The jobs of the full sweep over a database whose commits may fail: every
\* fetch succeeds.
NextPersist ==
    \/ scrape_all_stores
    \/ \E j \in 1..MaxJobs : scrape_product_price_start(j)
    \/ \E j \in 1..MaxJobs, page \in RichPages : scrape_product_price_fetch(j, page)
    \/ \E j \in 1..MaxJobs : scrape_product_price_commit(j)
    \/ \E j \in 1..MaxJobs : db_commit_fails(j)
    \/ \E j \in 1..MaxJobs : retry_due(j)

SpecPersist == Init /\ [][NextPersist]_vars

\* The spans of days the callers ask the history for: a day, and the default.
HistoryDays == {1, 30}

\* The pages of the history specification: in stock or not, at one price.
StockPages == {pg \in RichPages : pg.price = Some(1)}

\* The history readers, the clock and the jobs of the full sweep.
NextHistory ==
    \/ \E d \in Deltas : Tick(d)
    \/ scrape_all_stores
    \/ \E j \in 1..MaxJobs : scrape_product_price_start(j)
    \/ \E j \in 1..MaxJobs, page \in StockPages : scrape_product_price_fetch(j, page)
    \/ \E j \in 1..MaxJobs : scrape_product_price_commit(j)
    \/ \E product_id \in ProductIds, days \in HistoryDays :
          get_price_history_call(product_id, days)

SpecHistory == Init /\ [][NextHistory]_vars

\* ------------------------------------------------------------------ claims
JobIds == 1..Len(jobs)
Row(id) == CHOOSE r \in prices : r.id = id

\* Job j ends its commit step by writing its result.
CommitsResult(j) ==
    /\ jobs[j].status = "Running" /\ jobs[j].pc = "commit"
    /\ jobs'[j].status = "Succeeded" /\ jobs'[j].ret = "success"

\* C1: a write whose result is older than the scraped_at of the record it finds
\* for its (product, store) is a no-op, so that of two results the later one
\* stays in the repository whatever the order of the two writes.
C1_FreshnessPrecedence ==
    [][\A j \in JobIds :
         (/\ CommitsResult(j)
          /\ jobs[j].existing # None
          /\ Row(The(jobs[j].existing).id).scraped_at > The(jobs[j].result).scraped_at)
         => prices' = prices]_vars

\* C2: no two jobs that are Queued or Running are for the same (product, store).
C2_Dedup ==
    \A j, k \in JobIds :
       (/\ j # k
        /\ jobs[j].status \in {"Queued", "Running"}
        /\ jobs[k].status \in {"Queued", "Running"})
       => <<jobs[j].product_id, jobs[j].store_name>>
            # <<jobs[k].product_id, jobs[k].store_name>>

StrictlyIncreasing(seq) == \A i \in 1..(Len(seq) - 1) : seq[i] < seq[i + 1]

\* C3: a job that has ended and whose every fetch failed was retried
\* max_retries times, each delay longer than the one before, and is Failed.
C3_RetryCeiling ==
    \A j \in JobIds :
       (/\ jobs[j].status \in Terminal
        /\ jobs[j].fetches > 0
        /\ jobs[j].fetch_failures = jobs[j].fetches)
       => /\ jobs[j].status = "Failed"
          /\ jobs[j].retries = max_retries
          /\ Len(jobs[j].delays) = max_retries
          /\ StrictlyIncreasing(jobs[j].delays)

\* The records of a product that are in stock and scraped within the last 24 hours.
FreshInStock(product_id) ==
    {r \in prices : /\ r.product_id = product_id
                    /\ r.in_stock
                    /\ r.scraped_at > now - FreshnessWindow}
FreshOutOfStock(product_id) ==
    {r \in prices : /\ r.product_id = product_id
                    /\ ~r.in_stock
                    /\ r.scraped_at > now - FreshnessWindow}

\* C4: for a product with an in-stock record of the last 24 hours, lowest_price
\* is the minimum price of those records, for every limit and either value of
\* include_out_of_stock.
C4_CacheCorrectness ==
    \A p \in ProductIds, limit \in 1..MaxLimit, inc \in BOOLEAN :
       FreshInStock(p) # {} =>
          \A reply \in get_product_prices(p, limit, inc) :
             reply.lowest_price = Some(MinOf({r.price : r \in FreshInStock(p)}))

\* C5: include_out_of_stock does not change lowest_price; without it
\* total_stores counts the in-stock records only; with it the out-of-stock
\* records of the last 24 hours are listed and counted too.
C5_IncludeOutOfStock ==
    \A p \in ProductIds, limit \in 1..MaxLimit :
       /\ \A with \in get_product_prices(p, limit, TRUE),
             without \in get_product_prices(p, limit, FALSE) :
             with.lowest_price = without.lowest_price
       /\ \A without \in get_product_prices(p, limit, FALSE) :
             without.total_stores = without.stores_in_stock
       /\ \A with \in get_product_prices(p, limit, TRUE) :
             /\ with.total_stores
                  = Cardinality(FreshInStock(p)) + Cardinality(FreshOutOfStock(p))
             /\ \A r \in FreshOutOfStock(p) :
                   \E i \in 1..Len(with.prices) :
                      /\ with.prices[i].store = r.store_name
                      /\ with.prices[i].price = r.price
                      /\ ~with.prices[i].in_stock

\* C6: a step of the cleanup leaves no record older than the retention window
\* and keeps every record that is not older, as it was.
C6_Retention ==
    [][cleanup_old_prices =>
         /\ \A r \in prices' : r.scraped_at >= now - RetentionWindow
         /\ \A r \in prices : r.scraped_at >= now - RetentionWindow => r \in prices']_vars

\* The cleanup has deleted a record (its id is gone) and has kept another.
C6_Witness ==
    /\ now > RetentionWindow
    /\ \E i \in 1..(nextId - 1) : \A r \in prices : r.id # i
    /\ \E r \in prices : r.scraped_at >= now - RetentionWindow /\ r.scraped_at < now

\* C7: a message stays in the queue until its job has ended; the job of a lost
\* worker is Queued again, in the queue; and with workers that keep taking
\* steps every job that was enqueued ends Succeeded or Failed.
C7_AtLeastOnce ==
    /\ [](\A j \in JobIds : j \in queue <=> jobs[j].status \notin Terminal)
    /\ [][\A j \in JobIds :
            (jobs[j].status = "Running" /\ crashes' > crashes /\ jobs'[j] # jobs[j])
            => (jobs'[j].status = "Queued" /\ j \in queue')]_vars
    /\ \A j \in 1..MaxJobs :
          (Len(jobs) >= j) ~> (Len(jobs) >= j /\ jobs[j].status \in Terminal)

\* A worker was lost and every job, the one it ran included, has ended.
C7_Witness ==
    /\ crashes > 0
    /\ Len(jobs) > 0
    /\ \A j \in JobIds : jobs[j].status \in Terminal
    /\ queue = {}

\* The code configures no cap per store: any cap that does not depend on the
\* pool size is below the size of some pool.
StoreCap == PoolSize - 1

\* C8: the jobs Running against one store never exceed the store's cap.
C8_PerStoreCap ==
    \A s \in ScraperNames :
       Cardinality({j \in Running : jobs[j].store_name = s}) <= StoreCap

JobTransitions ==
    {<<"Queued", "Running">>, <<"Running", "Succeeded">>, <<"Running", "Retrying">>,
     <<"Retrying", "Queued">>, <<"Running", "Failed">>}

\* Every job is new and Queued, or keeps its status, or changes it along one of
\* the transitions (or, with requeue, from Running to Queued as its worker is
\* lost); its message leaves the queue exactly as it enters a terminal status.
LifecycleStep(requeue) ==
    /\ Len(jobs') >= Len(jobs)
    /\ \A j \in 1..Len(jobs') :
          IF j > Len(jobs)
          THEN jobs'[j].status = "Queued" /\ j \in queue'
          ELSE /\ \/ jobs'[j].status = jobs[j].status
                  \/ <<jobs[j].status, jobs'[j].status>> \in JobTransitions
                  \/ /\ requeue
                     /\ <<jobs[j].status, jobs'[j].status>> = <<"Running", "Queued">>
                     /\ crashes' = crashes + 1
               /\ (j \in queue /\ j \notin queue')
                    <=> (jobs[j].status \notin Terminal /\ jobs'[j].status \in Terminal)

\* C9, as stated: the status of a job changes only along Queued -> Running,
\* Running -> Succeeded, Running -> Retrying, Retrying -> Queued and
\* Running -> Failed, and the job is acknowledged as it enters Succeeded or Failed.
C9_StateMachine == [][LifecycleStep(FALSE)]_vars

\* C9, amended: the same, with Running -> Queued for the job of a lost worker.
C9_StateMachineRequeue == [][LifecycleStep(TRUE)]_vars

\* One job has Failed, one has Succeeded, and a worker was lost.
C9_Witness ==
    /\ crashes > 0
    /\ \E j \in JobIds : jobs[j].status = "Failed" /\ jobs[j].retries = max_retries
    /\ \E j \in JobIds : jobs[j].status = "Succeeded"

\* C10: an execution that ends without a price snapshot (the fetch failed, the
\* store has no scraper, the retries are used up) leaves every record as it was.
C10_FailureKeepsRepository ==
    [][\A j \in JobIds :
         (/\ jobs[j].status = "Running"
          /\ jobs'[j].status \in Terminal
          /\ jobs'[j].ret \in {"scraping_failed", "no_scraper", "raised"})
         => prices' = prices]_vars

\* A job's fetch failed while the repository holds a record of its pair.
C10_Witness ==
    \E j \in JobIds :
       /\ jobs[j].status = "Succeeded"
       /\ jobs[j].ret = "scraping_failed"
       /\ Matching(jobs[j].product_id, jobs[j].store_name) # {}

\* C11: an execution whose fetch cannot parse the page (the price element is
\* missing) ends, unless its worker is lost, with the job Failed and nothing
\* written; such a job was executed once and never enqueued again.
C11_ParseErrorFailsAtOnce ==
    /\ [][\A j \in JobIds :
            (/\ jobs[j].status = "Running"
             /\ jobs'[j].status # "Running"
             /\ jobs'[j].parse_errors > 0
             /\ crashes' = crashes)
            => (jobs'[j].status = "Failed" /\ prices' = prices)]_vars
    /\ [](\A j \in JobIds :
            jobs[j].parse_errors > 0
            => (jobs[j].fetches = 1 /\ jobs[j].retries = 0))

FetchErrorKinds == {"Timeout", "HTTPError", "BlockedOrCaptcha", "ParseError"}

\* What a scraper returned is a price snapshot: a result with its price.
IsPriceSnapshot(returned) ==
    returned # None /\ The(returned).price # None

\* What a scraper returned is a failure value that names the kind of failure.
IsFetchError(returned) ==
    /\ returned # None
    /\ "kind" \in DOMAIN The(returned)
    /\ The(returned).kind \in FetchErrorKinds

\* C12: for every page (a request that failed, a page without its price, a
\* good page) the scraper of a job that fetches returns a price snapshot or a
\* failure value whose kind is one of the four kinds.
C12_TypedFetchError ==
    \A j \in JobIds :
       (jobs[j].fetches > 0 /\ jobs[j].store_name \in ScraperNames) =>
          \A page \in Pages :
             LET returned == scrape_product(jobs[j].store_name, page)
             IN IsPriceSnapshot(returned) \/ IsFetchError(returned)

\* C13: a read of a product's prices that finds no live cache entry for the
\* product answers with the minimum price of the in-stock records of the last
\* 24 hours and leaves that value in the cache for the product.
C13_CacheMissFallback ==
    [][\A p \in ProductIds :
         (/\ last_reply' # last_reply
          /\ The(last_reply').product_id = p
          /\ redis_get(p) = None
          /\ FreshInStock(p) # {})
         => LET lowest == MinOf({r.price : r \in FreshInStock(p)})
            IN /\ The(last_reply').lowest_price = Some(lowest)
               /\ cache'[p] # None
               /\ The(cache'[p]).value = str(lowest)
               /\ now < The(cache'[p]).expires_at]_vars

\* The sale rule of a stored record.
SaleRule(r) ==
    r.is_on_sale <=> (r.original_price # None /\ The(r.original_price) > r.price)

\* C14: every stored record is on sale exactly when it has an original price
\* above its price, and every entry of detect_sales has an original price above
\* its sale price and a discount above 0.
C14_SaleRule ==
    /\ \A r \in prices : SaleRule(r)
    /\ \A entry \in detect_sales :
          /\ entry.original_price # None
          /\ The(entry.original_price) > entry.sale_price
          /\ entry.discount_percent > 0

\* C15: the discount of an entry is (original_price - price) / original_price
\* * 100 to the nearest tenth of a percent, and 24.0 for 249.99 and 189.99.
C15_SaleMath ==
    \A entry \in detect_sales :
       entry.original_price # None =>
          LET original == The(entry.original_price)
              exact == (original - entry.sale_price) * 1000
          IN /\ 2 * Abs(entry.discount_percent * original - exact) <= original
             /\ (original = 24999 /\ entry.sale_price = 18999)
                  => entry.discount_percent = 240

\* detect_sales lists a record of 189.99 with the original price 249.99.
C15_Witness ==
    \E entry \in detect_sales :
       /\ entry.original_price = Some(24999)
       /\ entry.sale_price = 18999
       /\ entry.discount_percent = 240

\* C16: the repository holds at most one record of a (product, store), and an
\* answer of get_product_prices lists a store at most once.
C16_OneCurrentRecord ==
    /\ \A p \in ProductIds, store_name \in ScraperNames :
          Cardinality(Matching(p, store_name)) <= 1
    /\ \A p \in ProductIds, include_out_of_stock \in BOOLEAN :
          \A answer \in get_product_prices(p, MaxLimit, include_out_of_stock) :
             \A i, k \in 1..Len(answer.prices) :
                answer.prices[i].store = answer.prices[k].store => i = k

MaxOf(S) == CHOOSE x \in S : \A y \in S : x >= y

\* The scraped_at of the most recent of the given records.
LastScrapedAt(rows) == MaxOf({r.scraped_at : r \in rows})

C18_PriceNonNegative ==
    \A r \in prices : r.price \in Int /\ r.price >= 0

\* An answer of get_product_prices, asked without a limit that could cut it
\* short, lists the record with its price and its scraped_at.
Visible(r) ==
    \E answer \in get_product_prices(r.product_id, Cardinality(prices) + 1, FALSE) :
       \E i \in 1..Len(answer.prices) :
          /\ answer.prices[i].store = r.store_name
          /\ answer.prices[i].price = r.price
          /\ answer.prices[i].last_updated = r.scraped_at

\* A fetch of the record's (product, store) has failed since the record was
\* scraped.
FetchFailedSince(r) ==
    \E j \in JobIds : /\ jobs[j].product_id = r.product_id
                      /\ jobs[j].store_name = r.store_name
                      /\ jobs[j].failed_at # None
                      /\ The(jobs[j].failed_at) > r.scraped_at

\* This step is the write of a fetched result for the (product, store).
SuccessfulFetch(product_id, store_name) ==
    \E j \in JobIds : /\ jobs[j].product_id = product_id
                      /\ jobs[j].store_name = store_name
                      /\ CommitsResult(j)

\* A listed in-stock record stays listed over every step, the failing one
\* included, that comes with or after a failed fetch of its pair, is not a
\* successful fetch of the pair and, with while_fresh, leaves the record within
\* the freshness window.
StaysVisible(while_fresh) ==
    \A r \in prices :
       (/\ r.in_stock
        /\ Visible(r)
        /\ FetchFailedSince(r)'
        /\ ~SuccessfulFetch(r.product_id, r.store_name)
        /\ (while_fresh => r.scraped_at > now' - FreshnessWindow))
       => Visible(r)'

\* C19, as stated: after a failed fetch the price of the pair stays listed, with
\* its older scraped_at, until the next successful fetch of the pair.
C19_StaleStaysVisible == [][StaysVisible(FALSE)]_vars

\* C19, amended: the same, for as long as the record is within the freshness
\* window of 24 hours.
C19_StaleStaysVisibleWhileFresh == [][StaysVisible(TRUE)]_vars

\* A fetch of a pair has failed and the record of the pair, scraped before the
\* failure, is listed.
C19_Witness ==
    \E r \in prices : r.in_stock /\ Visible(r) /\ FetchFailedSince(r)

\* The beat sends the task of the entry in this step.
Fires(name) == entries'[name].total_run_count > entries[name].total_run_count

\* The time between this firing of the entry and its firing before.
SinceLastRun(name) == entries'[name].last_run_at - entries[name].last_run_at

\* C20: 12 hours lie between two consecutive firings of the full sweep and 4
\* hours between two of the priority sweep.
C20_SweepCadence ==
    [][/\ (Fires("scrape_all_stores")
           /\ entries["scrape_all_stores"].total_run_count > 0)
          => SinceLastRun("scrape_all_stores") = 12 * MinutesPerHour
       /\ (Fires("scrape_priority_products")
           /\ entries["scrape_priority_products"].total_run_count > 0)
          => SinceLastRun("scrape_priority_products") = 4 * MinutesPerHour]_vars

\* The jobs that this step appends to the jobs there were.
NewJobs == SubSeq(jobs', Len(jobs) + 1, Len(jobs'))

\* The new jobs that are for the (product, store).
NewJobsOf(product_id, store_name) ==
    {i \in 1..Len(NewJobs) : /\ NewJobs[i].product_id = product_id
                             /\ NewJobs[i].store_name = store_name}

\* The step enqueues jobs and does nothing else: the jobs there were, the
\* repository, the cache and the products stay as they are, and every new job
\* is Queued, in the queue, and has fetched nothing.
OnlyEnqueues ==
    /\ SubSeq(jobs', 1, Len(jobs)) = jobs
    /\ \A i \in 1..Len(NewJobs) :
          /\ NewJobs[i].status = "Queued"
          /\ NewJobs[i].fetches = 0
          /\ (Len(jobs) + i) \in queue'
    /\ UNCHANGED <<prices, nextId, cache, current_best_price>>

\* C21: a run of the full sweep enqueues one job for every (product, store)
\* that has a URL and none for a pair without, and fetches and writes nothing.
C21_FullSweep ==
    [][scrape_all_stores =>
         /\ OnlyEnqueues
         /\ \A i \in 1..Len(NewJobs) :
               /\ NewJobs[i].product_id \in ProductIds
               /\ NewJobs[i].store_name \in ScraperNames
         /\ \A p \in ProductIds, store_name \in ScraperNames :
               Cardinality(NewJobsOf(p, store_name))
                 = IF get_store_url(p, store_name) # None THEN 1 ELSE 0]_vars

\* The full sweep has run after another job was enqueued: its three jobs are
\* the last ones.
C21_Witness ==
    /\ Len(jobs) = 3
    /\ \A j \in JobIds : jobs[j].status = "Queued"
    /\ <<jobs[1].product_id, jobs[1].store_name>> = <<1, "Boot Barn">>
    /\ <<jobs[2].product_id, jobs[2].store_name>> = <<2, "Boot Barn">>
    /\ <<jobs[3].product_id, jobs[3].store_name>> = <<2, "Sheplers">>

\* C22: a run of the priority sweep enqueues jobs for high-priority products
\* only, and one for every store with a URL of every high-priority product of
\* the table, however many high-priority products the table holds.
C22_PrioritySweepAll ==
    [][\A catalog \in Catalogs :
         (Len(jobs') > Len(jobs) /\ scrape_priority_products_on(catalog)) =>
           /\ OnlyEnqueues
           /\ \A i \in 1..Len(NewJobs) :
                 \E k \in 1..Len(catalog) :
                    /\ catalog[k].id = NewJobs[i].product_id
                    /\ catalog[k].priority_level = "high"
           /\ \A k \in 1..Len(catalog), store_name \in ScraperNames :
                 (/\ catalog[k].priority_level = "high"
                  /\ get_store_url(catalog[k].id, store_name) # None)
                   => NewJobsOf(catalog[k].id, store_name) # {}]_vars

\* The records of the product that are in stock and fetched within the
\* freshness window.
Qualifying(product_id) ==
    {r \in prices : /\ r.product_id = product_id
                    /\ r.in_stock
                    /\ now - r.scraped_at < FreshnessWindow}

\* C23: when a run of the refresh that no write interleaves with completes,
\* every product with an in-stock record of the last 24 hours has a cache
\* entry of the lowest price of exactly those records that lives one hour, and
\* its current_best_price is that same price.
C23_RefreshSetsBestPrice ==
    [][update_best_prices_cache_commit =>
         \A p \in ProductIds :
            Qualifying(p) # {} =>
              LET lowest == MinOf({r.price : r \in Qualifying(p)})
              IN /\ cache'[p] = Some([value |-> str(lowest),
                                      expires_at |-> now + CacheTTL])
                 /\ current_best_price'[p] = Some(lowest)]_vars

\* A refresh has completed for a product whose cheapest record is out of
\* stock: the cache and the product carry the dearer in-stock price.
C23_Witness ==
    /\ refresh.pc = 0
    /\ \E p \in ProductIds :
          /\ \E r \in prices : r.product_id = p /\ ~r.in_stock /\ r.price = 1
          /\ Qualifying(p) # {}
          /\ \A r \in Qualifying(p) : r.price = 2
          /\ cache[p] = Some([value |-> str(2), expires_at |-> now + CacheTTL])
          /\ current_best_price[p] = Some(2)

\* C24: after every completed refresh current_best_price mirrors the cache:
\* it is the price of the live cache entry, and a product that has no live
\* cache entry because it has no in-stock record of the last 24 hours reports
\* no best price.
C24_BestPriceMirrorsCache ==
    [][update_best_prices_cache_commit =>
         \A p \in ProductIds :
            /\ redis_get(p)' # None =>
                  /\ current_best_price'[p] # None
                  /\ str(The(current_best_price'[p])) = The(redis_get(p)')
            /\ (redis_get(p)' = None /\ Qualifying(p) = {}) =>
                  current_best_price'[p] = None]_vars

\* C25: a job is re-enqueued only while its attempts are fewer than the
\* maximum: the executions it is given by its first delivery and by its
\* retries never number more than the maximum.
C25_AttemptCeiling ==
    \A j \in JobIds : 1 + jobs[j].retries <= max_retries

\* C26: when the write of a fetched result fails, the job is not reported as
\* done and no record is added or changed; the job is retried (as long as it
\* has retries left, Failed after that), and a retried job runs whole: it
\* starts again at the fetch, without the result it had.
C26_FailedWriteRetriesJob ==
    [][\A j \in 1..MaxJobs :
         /\ db_commit_fails(j) =>
               /\ prices' = prices
               /\ jobs'[j].status # "Succeeded"
               /\ jobs'[j].status = (IF jobs[j].retries < max_retries
                                     THEN "Retrying" ELSE "Failed")
               /\ jobs'[j].retries >= jobs[j].retries
         /\ (/\ j <= Len(jobs)
             /\ jobs[j].status # "Running"
             /\ jobs'[j].status = "Running") =>
               /\ jobs'[j].pc = "fetch"
               /\ jobs'[j].result = None]_vars

\* A job whose first write failed ran again, fetched again and has written
\* the record of its second fetch.
C26_Witness ==
    \E j \in JobIds :
       /\ jobs[j].status = "Succeeded"
       /\ jobs[j].retries = 1
       /\ jobs[j].fetches = 2
       /\ Matching(jobs[j].product_id, jobs[j].store_name) # {}

\* The record carries the values of the fetched result.
IsSnapshot(r, result) ==
    /\ r.price = The(result.price)
    /\ r.original_price = result.original_price
    /\ r.is_on_sale = result.is_on_sale
    /\ r.in_stock = result.in_stock

\* C27: a job that succeeds leaves its (product, store) with a record of the
\* values it fetched, and leaves the records of every other pair, the cache
\* and every product's current_best_price as they were.
C27_SuccessfulJobFrame ==
    [][\A j \in JobIds :
         CommitsResult(j) =>
           LET product_id == jobs[j].product_id
               store_name == jobs[j].store_name
           IN /\ \E r \in Matching(product_id, store_name)' :
                    IsSnapshot(r, The(jobs[j].result))
              /\ prices' \ Matching(product_id, store_name)'
                   = prices \ Matching(product_id, store_name)
              /\ UNCHANGED <<cache, current_best_price>>]_vars

\* The records of the product fetched within the last days days.
RecordsWithin(product_id, days) ==
    {r \in prices : /\ r.product_id = product_id
                    /\ now - r.scraped_at < days * FreshnessWindow}

\* C28: the history that a call gives lists exactly the records of the asked
\* product that were fetched within the last days days, each once, in an
\* order in which scraped_at never decreases.
C28_PriceHistory ==
    [][\A product_id \in ProductIds, days \in HistoryDays :
         get_price_history_call(product_id, days) =>
           LET history == The(last_reply').history
               records == RecordsWithin(product_id, days)
           IN /\ Len(history) = Cardinality(records)
              /\ \E o \in [1..Len(history) -> records] :
                    /\ \A i, k \in 1..Len(history) : i # k => o[i] # o[k]
                    /\ \A i \in 1..Len(history) :
                          /\ history[i].date = isoformat(o[i].scraped_at)
                          /\ history[i].store = o[i].store_name
                          /\ history[i].price = o[i].price
                          /\ history[i].in_stock = o[i].in_stock
              /\ \A i, k \in 1..Len(history) :
                    i < k => history[i].date.iso <= history[k].date.iso]_vars

\* A history of one day was given for product 2 that lists one of its two
\* records, the other being older than a day, while the repository also
\* holds a record of product 1.
C28_Witness ==
    /\ last_reply # None
    /\ The(last_reply).product_id = 2
    /\ The(last_reply).days = 1
    /\ Len(The(last_reply).history) = 1
    /\ Cardinality(RecordsWithin(2, 1)) = 1
    /\ Cardinality({r \in prices : r.product_id = 2}) = 2
    /\ \E r \in prices : r.product_id = 1

\* C29: the cache is rebuilt from the repository alone. Whatever the cache
\* holds, a turn of the refresh gives a product with qualifying records the
\* entry of their lowest price and leaves every other entry as it is; if the
\* entry already held that value (the refresh runs a second time over the
\* same records) the value stays and only its expiry moves forward.
C29_CacheRebuildable ==
    [][update_best_prices_cache_product =>
         LET p == ProductCatalog[refresh.pc].id
             lowest == MinOf({r.price : r \in Qualifying(p)})
         IN /\ Qualifying(p) # {} =>
                  /\ cache'[p] # None
                  /\ The(cache'[p]).value = str(lowest)
            /\ (/\ Qualifying(p) # {}
                /\ cache[p] # None
                /\ The(cache[p]).value = str(lowest)) =>
                  /\ The(cache'[p]).value = The(cache[p]).value
                  /\ The(cache'[p]).expires_at >= The(cache[p]).expires_at
            /\ Qualifying(p) = {} => cache'[p] = cache[p]
            /\ \A q \in ProductIds \ {p} : cache'[q] = cache[q]]_vars

\* A refresh is under way that has replaced the live entry of an earlier
\* refresh (price 1, still the product's committed best price) by the entry of
\* the records there are now (price 2).
C29_Witness ==
    \E p \in ProductIds :
       /\ refresh.pc # 0
       /\ refresh.session[p] = Some(2)
       /\ current_best_price[p] = Some(1)
       /\ cache[p] = Some([value |-> str(2), expires_at |-> now + CacheTTL])

\* The records of the product.
RecordsOf(product_id) == {r \in prices : r.product_id = product_id}

\* The time by which the last of the product's records had stopped qualifying:
\* an in-stock record as it left the freshness window, a record that is out
\* of stock as it was written.
StoppedAt(product_id) ==
    MaxOf({IF r.in_stock THEN r.scraped_at + FreshnessWindow ELSE r.scraped_at :
             r \in RecordsOf(product_id)})

\* The product has had no qualifying record for longer than a period of the
\* refresh and the lifetime of a cache entry.
StaleBeyondBound(product_id) ==
    /\ RecordsOf(product_id) # {}
    /\ Qualifying(product_id) = {}
    /\ now > StoppedAt(product_id) + RefreshEvery + CacheTTL

\* C30: once a product has had no in-stock record of the last 24 hours for
\* more than 15 minutes and the hour of the TTL, a completed refresh leaves
\* neither a live cache entry nor a current_best_price for it.
C30_BoundedStaleness ==
    [][update_best_prices_cache_commit =>
         \A p \in ProductIds :
            StaleBeyondBound(p) =>
              /\ redis_get(p)' = None
              /\ current_best_price'[p] = None]_vars

====
